---- MODULE Spec2Model ----
(***************************************************************************)
(* Model of the task_log backend (src/src-tauri/src/lib.rs): the in-memory *)
(* Task State and Hotkey Configuration, their JSON files under ~/.tasks,   *)
(* the completion log, the hotkey parser and the global-shortcut binding.  *)
(*                                                                         *)
(* Strings and file contents are sequences of one-character strings, so    *)
(* that splitting, lower-casing, escaping and parsing are computed, not    *)
(* assumed.  The single multi-character element "xFF" stands for a byte    *)
(* that is not valid UTF-8, and "x60" for the backquote character.         *)
(***************************************************************************)
EXTENDS Integers, Sequences, FiniteSets, TLC

VARIABLES
  phase,             \* "off": no process; "up": run() has finished setup
  dirExists,         \* whether ~/.tasks exists
  files,             \* name -> [exists, data] for the files under ~/.tasks
  tasks,             \* AppState.tasks
  config,            \* AppState.config.hotkey
  current_shortcut,  \* AppState.current_shortcut : Option<Shortcut>
  registered,        \* shortcuts the OS has registered for this process
  done,              \* done.md and its archives: [log, archives]
  clock,             \* Local::now(), in seconds
  ret,               \* the last command's name, argument and result
  latest,            \* where the Task State last came from: startup or the
                     \* most recent save_state call, its value, and whether
                     \* that call returned ok
  inParts,           \* the tokens the hotkey string under parse was built from
  pc,                \* caller -> position inside its command
  arg,               \* caller -> argument of the command it is running
  tasksLock,         \* holder of AppState.tasks' mutex: Option<caller>
  poisoned,          \* mutex of AppState -> whether a holder panicked
  target_os,         \* the build target: "macos" or "other"
  window             \* the main window: [visible, position]

vars ==
  << phase, dirExists, files, tasks, config, current_shortcut, registered,
     done, clock, ret, latest, inParts, pc, arg, tasksLock, poisoned,
     target_os, window >>

-----------------------------------------------------------------------------
(* Option<T> and Result<T, E> *)

None == {}

Some(x) == {x}

Unwrap(o) == CHOOSE x \in o : TRUE

Ok(v) == [ok |-> TRUE, val |-> v]

Err(kind, token) == [ok |-> FALSE, kind |-> kind, token |-> token]

Min(S) == CHOOSE x \in S : \A y \in S : x <= y

-----------------------------------------------------------------------------
(* Hotkey Resolver: parse_hotkey *)

ModifierTable ==
  << << << "c","m","d" >>, "SUPER" >>,
    << << "c","o","m","m","a","n","d" >>, "SUPER" >>,
    << << "s","u","p","e","r" >>, "SUPER" >>,
    << << "m","e","t","a" >>, "SUPER" >>,
    << << "c","t","r","l" >>, "CONTROL" >>,
    << << "c","o","n","t","r","o","l" >>, "CONTROL" >>,
    << << "a","l","t" >>, "ALT" >>,
    << << "o","p","t","i","o","n" >>, "ALT" >>,
    << << "s","h","i","f","t" >>, "SHIFT" >> >>

KeyTable ==
  << << << "a" >>, "KeyA" >>,
    << << "b" >>, "KeyB" >>,
    << << "c" >>, "KeyC" >>,
    << << "d" >>, "KeyD" >>,
    << << "e" >>, "KeyE" >>,
    << << "f" >>, "KeyF" >>,
    << << "g" >>, "KeyG" >>,
    << << "h" >>, "KeyH" >>,
    << << "i" >>, "KeyI" >>,
    << << "j" >>, "KeyJ" >>,
    << << "k" >>, "KeyK" >>,
    << << "l" >>, "KeyL" >>,
    << << "m" >>, "KeyM" >>,
    << << "n" >>, "KeyN" >>,
    << << "o" >>, "KeyO" >>,
    << << "p" >>, "KeyP" >>,
    << << "q" >>, "KeyQ" >>,
    << << "r" >>, "KeyR" >>,
    << << "s" >>, "KeyS" >>,
    << << "t" >>, "KeyT" >>,
    << << "u" >>, "KeyU" >>,
    << << "v" >>, "KeyV" >>,
    << << "w" >>, "KeyW" >>,
    << << "x" >>, "KeyX" >>,
    << << "y" >>, "KeyY" >>,
    << << "z" >>, "KeyZ" >>,
    << << "0" >>, "Digit0" >>,
    << << "1" >>, "Digit1" >>,
    << << "2" >>, "Digit2" >>,
    << << "3" >>, "Digit3" >>,
    << << "4" >>, "Digit4" >>,
    << << "5" >>, "Digit5" >>,
    << << "6" >>, "Digit6" >>,
    << << "7" >>, "Digit7" >>,
    << << "8" >>, "Digit8" >>,
    << << "9" >>, "Digit9" >>,
    << << "=" >>, "Equal" >>,
    << << "e","q","u","a","l" >>, "Equal" >>,
    << << "-" >>, "Minus" >>,
    << << "m","i","n","u","s" >>, "Minus" >>,
    << << "[" >>, "BracketLeft" >>,
    << << "b","r","a","c","k","e","t","l","e","f","t" >>, "BracketLeft" >>,
    << << "]" >>, "BracketRight" >>,
    << << "b","r","a","c","k","e","t","r","i","g","h","t" >>, "BracketRight" >>,
    << << "\\" >>, "Backslash" >>,
    << << "b","a","c","k","s","l","a","s","h" >>, "Backslash" >>,
    << << ";" >>, "Semicolon" >>,
    << << "s","e","m","i","c","o","l","o","n" >>, "Semicolon" >>,
    << << "'" >>, "Quote" >>,
    << << "q","u","o","t","e" >>, "Quote" >>,
    << << "x60" >>, "Backquote" >>,
    << << "b","a","c","k","q","u","o","t","e" >>, "Backquote" >>,
    << << "," >>, "Comma" >>,
    << << "c","o","m","m","a" >>, "Comma" >>,
    << << "." >>, "Period" >>,
    << << "p","e","r","i","o","d" >>, "Period" >>,
    << << "/" >>, "Slash" >>,
    << << "s","l","a","s","h" >>, "Slash" >>,
    << << "s","p","a","c","e" >>, "Space" >>,
    << << "e","n","t","e","r" >>, "Enter" >>,
    << << "r","e","t","u","r","n" >>, "Enter" >>,
    << << "t","a","b" >>, "Tab" >>,
    << << "e","s","c","a","p","e" >>, "Escape" >>,
    << << "e","s","c" >>, "Escape" >>,
    << << "b","a","c","k","s","p","a","c","e" >>, "Backspace" >>,
    << << "d","e","l","e","t","e" >>, "Delete" >>,
    << << "u","p" >>, "ArrowUp" >>,
    << << "d","o","w","n" >>, "ArrowDown" >>,
    << << "l","e","f","t" >>, "ArrowLeft" >>,
    << << "r","i","g","h","t" >>, "ArrowRight" >>,
    << << "f","1" >>, "F1" >>,
    << << "f","2" >>, "F2" >>,
    << << "f","3" >>, "F3" >>,
    << << "f","4" >>, "F4" >>,
    << << "f","5" >>, "F5" >>,
    << << "f","6" >>, "F6" >>,
    << << "f","7" >>, "F7" >>,
    << << "f","8" >>, "F8" >>,
    << << "f","9" >>, "F9" >>,
    << << "f","1","0" >>, "F10" >>,
    << << "f","1","1" >>, "F11" >>,
    << << "f","1","2" >>, "F12" >> >>

UpperCase ==
  <<"A", "B", "C", "D", "E", "F", "G", "H", "I", "J", "K", "L", "M", "N", "O", "P", "Q", "R", "S", "T", "U", "V", "W", "X", "Y", "Z" >>

LowerCase ==
  <<"a", "b", "c", "d", "e", "f", "g", "h", "i", "j", "k", "l", "m", "n", "o", "p", "q", "r", "s", "t", "u", "v", "w", "x", "y", "z" >>

\* char::to_lowercase on the characters of the tables
LowerChar(c) ==
  IF \E i \in 1..Len(UpperCase) : UpperCase[i] = c
  THEN LowerCase[CHOOSE i \in 1..Len(UpperCase) : UpperCase[i] = c]
  ELSE c

\* str::to_lowercase
to_lowercase(s) == [i \in 1..Len(s) |-> LowerChar(s[i])]

\* hotkey.split('+').collect(): the pieces between the '+' characters; a
\* string without '+' (the empty string too) is one piece
RECURSIVE split(_)
split(s) ==
  LET plus == {i \in 1..Len(s) : s[i] = "+"}
  IN  IF plus = {}
      THEN << s >>
      ELSE << SubSeq(s, 1, Min(plus) - 1) >>
             \o split(SubSeq(s, Min(plus) + 1, Len(s)))

\* The value a table gives a key, as an Option
Lookup(table, key) ==
  { table[i][2] : i \in {j \in 1..Len(table) : table[j][1] = key} }

\* for part in &parts[..parts.len() - 1]: the index of the first part that
\* matches no modifier arm, 0 when every part matches one
FirstUnknownModifierLast(mod_parts) ==
  LET bad == {i \in 1..Len(mod_parts) :
                Lookup(ModifierTable, to_lowercase(mod_parts[i])) = None}
  IN  IF bad = {} THEN 0 ELSE CHOOSE i \in bad : \A j \in bad : j <= i

FirstUnknownModifier(mod_parts) ==
  LET bad == {i \in 1..Len(mod_parts) :
                Lookup(ModifierTable, to_lowercase(mod_parts[i])) = None}
  IN  IF bad = {} THEN 0 ELSE Min(bad)

\* modifiers |= ... over the parts before the last
ModifiersOverwrite(mod_parts) ==
  IF mod_parts = << >> THEN {}
  ELSE Lookup(ModifierTable, to_lowercase(mod_parts[Len(mod_parts)]))

ModifiersOf(mod_parts) ==
  UNION { Lookup(ModifierTable, to_lowercase(mod_parts[i])) :
            i \in 1..Len(mod_parts) }

\* match key_str.to_lowercase().as_str() { ... }
KeyCode(key_str) == Lookup(KeyTable, to_lowercase(key_str))

parse_hotkey(hotkey) ==
  LET parts == split(hotkey)
  IN  IF parts = << >>
      THEN Err("EmptyHotkey", << >>)
      ELSE
        LET key_str   == parts[Len(parts)]
            mod_parts == SubSeq(parts, 1, Len(parts) - 1)
            unknown   == FirstUnknownModifier(mod_parts)
            modifiers == ModifiersOf(mod_parts)
            code      == KeyCode(key_str)
        IN  IF unknown # 0
            THEN Err("UnknownModifier", mod_parts[unknown])
            ELSE IF code = None
            THEN Err("UnknownKey", key_str)
            ELSE Ok([mods |-> IF modifiers = {} THEN None ELSE Some(modifiers),
                     code |-> Unwrap(code)])

-----------------------------------------------------------------------------
(* serde_json over Note, Task, TaskState and AppConfig *)

RECURSIVE Flatten(_)
Flatten(ss) == IF ss = << >> THEN << >> ELSE Head(ss) \o Flatten(Tail(ss))

\* The field names of the derived Serialize/Deserialize implementations
FieldNames ==
  << << << "c","u","r","r","e","n","t" >>, "current" >>,
     << << "s","h","e","l","f" >>, "shelf" >>,
     << << "t","e","x","t" >>, "text" >>,
     << << "n","o","t","e","s" >>, "notes" >>,
     << << "c","o","m","p","l","e","t","e","d" >>, "completed" >>,
     << << "h","o","t","k","e","y" >>, "hotkey" >> >>

FieldChars(name) ==
  FieldNames[CHOOSE i \in 1..Len(FieldNames) : FieldNames[i][2] = name][1]

\* fn default_hotkey(): "Cmd+Ctrl+Alt+Shift+="
default_hotkey ==
  << "C","m","d","+","C","t","r","l","+","A","l","t","+","S","h","i","f","t","+","=" >>

\* serde_json's string escaping, on the characters the model uses
EscapeCharNoBackslash(c) ==
  IF c = "\"" THEN << "\\", "\"" >>
  ELSE IF c = "\n" THEN << "\\", "n" >>
  ELSE << c >>

EscapeChar(c) ==
  IF c = "\"" THEN << "\\", "\"" >>
  ELSE IF c = "\\" THEN << "\\", "\\" >>
  ELSE IF c = "\n" THEN << "\\", "n" >>
  ELSE << c >>

WriteString(s) ==
  << "\"" >> \o Flatten([i \in 1..Len(s) |-> EscapeChar(s[i])]) \o << "\"" >>

WriteBool(b) ==
  IF b THEN << "t","r","u","e" >> ELSE << "f","a","l","s","e" >>

\* PrettyFormatter: two spaces per nesting level
Indent(level) == [i \in 1..(2 * level) |-> " "]

\* begin_array / begin_array_value / end_array: "[]" when empty, otherwise
\* one value per line
WriteArray(items, level) ==
  IF items = << >> THEN << "[", "]" >>
  ELSE << "[" >>
       \o Flatten([i \in 1..Len(items) |->
                     (IF i = 1 THEN << "\n" >> ELSE << ",", "\n" >>)
                     \o Indent(level + 1) \o items[i]])
       \o << "\n" >> \o Indent(level) \o << "]" >>

\* begin_object / key / ": " / value / end_object; members are << name, value >>
WriteObject(members, level) ==
  IF members = << >> THEN << "{", "}" >>
  ELSE << "{" >>
       \o Flatten([i \in 1..Len(members) |->
                     (IF i = 1 THEN << "\n" >> ELSE << ",", "\n" >>)
                     \o Indent(level + 1)
                     \o WriteString(FieldChars(members[i][1]))
                     \o << ":", " " >> \o members[i][2]])
       \o << "\n" >> \o Indent(level) \o << "}" >>

\* #[derive(Serialize)] struct Note
WriteNote(note, level) ==
  WriteObject(<< << "text", WriteString(note.text) >>,
                 << "completed", WriteBool(note.completed) >> >>, level)

\* #[derive(Serialize)] struct Task
WriteTask(task, level) ==
  WriteObject(
    << << "text", WriteString(task.text) >>,
       << "notes",
          WriteArray([i \in 1..Len(task.notes) |->
                        WriteNote(task.notes[i], level + 2)], level + 1) >> >>,
    level)

WriteTaskList(list, level) ==
  WriteArray([i \in 1..Len(list) |-> WriteTask(list[i], level + 1)], level)

\* serde_json::to_string_pretty(state)
StateToJson(state) ==
  WriteObject(<< << "current", WriteTaskList(state.current, 1) >>,
                 << "shelf", WriteTaskList(state.shelf, 1) >> >>, 0)

\* serde_json::to_string_pretty(config)
ConfigToJson(cfg) ==
  WriteObject(<< << "hotkey", WriteString(cfg) >> >>, 0)

\* Deserializing.  A parse result is [ok, val, pos]: pos is the index of the
\* first character after the value.

Fail == [ok |-> FALSE, val |-> << >>, pos |-> 0]

Parsed(v, p) == [ok |-> TRUE, val |-> v, pos |-> p]

Whitespace == {" ", "\n", "\t", "\r"}

RECURSIVE SkipWs(_, _)
SkipWs(s, i) ==
  IF i <= Len(s) /\ s[i] \in Whitespace THEN SkipWs(s, i + 1) ELSE i

At(s, i, c) == i <= Len(s) /\ s[i] = c

\* whether s holds the characters lit from index i on
Holds(s, i, lit) ==
  /\ i + Len(lit) - 1 <= Len(s)
  /\ \A k \in 1..Len(lit) : s[i + k - 1] = lit[k]

\* The characters of a string after its opening quote: escapes are decoded,
\* a raw control character or the end of input is an error
RECURSIVE ReadStringBody(_, _, _)
ReadStringBody(s, i, acc) ==
  IF i > Len(s) THEN Fail
  ELSE IF s[i] = "\"" THEN Parsed(acc, i + 1)
  ELSE IF s[i] = "\\" THEN
    IF At(s, i + 1, "\"") THEN ReadStringBody(s, i + 2, Append(acc, "\""))
    ELSE IF At(s, i + 1, "\\") THEN ReadStringBody(s, i + 2, Append(acc, "\\"))
    ELSE IF At(s, i + 1, "n") THEN ReadStringBody(s, i + 2, Append(acc, "\n"))
    ELSE IF At(s, i + 1, "t") THEN ReadStringBody(s, i + 2, Append(acc, "\t"))
    ELSE IF At(s, i + 1, "r") THEN ReadStringBody(s, i + 2, Append(acc, "\r"))
    ELSE IF At(s, i + 1, "/") THEN ReadStringBody(s, i + 2, Append(acc, "/"))
    ELSE Fail
  ELSE IF s[i] \in {"\n", "\t", "\r"} THEN Fail
  ELSE ReadStringBody(s, i + 1, Append(acc, s[i]))

ReadString(s, i) ==
  IF At(s, i, "\"") THEN ReadStringBody(s, i + 1, << >>) ELSE Fail

ReadBool(s, i) ==
  IF Holds(s, i, << "t","r","u","e" >>) THEN Parsed(TRUE, i + 4)
  ELSE IF Holds(s, i, << "f","a","l","s","e" >>) THEN Parsed(FALSE, i + 5)
  ELSE Fail

\* The type of the value a struct's field holds; a key that names no field
\* holds a value of any type, which serde reads and drops
FieldType(ty, key) ==
  LET name == Lookup(FieldNames, key)
  IN  IF name = None THEN "any"
      ELSE IF ty = "state" /\ Unwrap(name) \in {"current", "shelf"} THEN "tasks"
      ELSE IF ty = "task" /\ Unwrap(name) = "text" THEN "string"
      ELSE IF ty = "task" /\ Unwrap(name) = "notes" THEN "notes"
      ELSE IF ty = "note" /\ Unwrap(name) = "text" THEN "string"
      ELSE IF ty = "note" /\ Unwrap(name) = "completed" THEN "bool"
      ELSE IF ty = "config" /\ Unwrap(name) = "hotkey" THEN "string"
      ELSE "any"

\* The struct a visitor builds from the fields it has seen: a missing field
\* is an error unless it is #[serde(default)]
Build(ty, seen) ==
  IF ty = "state" THEN
    IF {"current", "shelf"} \subseteq DOMAIN seen
    THEN Parsed([current |-> seen["current"], shelf |-> seen["shelf"]], 0)
    ELSE Fail
  ELSE IF ty = "task" THEN
    IF "text" \in DOMAIN seen
    THEN Parsed([text  |-> seen["text"],
                 notes |-> IF "notes" \in DOMAIN seen
                           THEN seen["notes"] ELSE << >>], 0)
    ELSE Fail
  ELSE IF ty = "note" THEN
    IF "text" \in DOMAIN seen
    THEN Parsed([text      |-> seen["text"],
                 completed |-> IF "completed" \in DOMAIN seen
                               THEN seen["completed"] ELSE FALSE], 0)
    ELSE Fail
  ELSE IF ty = "config" THEN
    Parsed(IF "hotkey" \in DOMAIN seen THEN seen["hotkey"]
           ELSE default_hotkey, 0)
  ELSE Parsed(<< >>, 0)

ElementType(ty) ==
  IF ty = "tasks" THEN "task" ELSE IF ty = "notes" THEN "note" ELSE "any"

RECURSIVE ReadValue(_, _, _), ReadElements(_, _, _, _), ReadMembers(_, _, _, _)

\* The elements of an array after its first: "," value ... "]"
ReadElements(ty, s, i, acc) ==
  LET j == SkipWs(s, i)
  IN  IF At(s, j, "]") THEN Parsed(acc, j + 1)
      ELSE IF At(s, j, ",") THEN
        LET v == ReadValue(ty, s, SkipWs(s, j + 1))
        IN  IF v.ok THEN ReadElements(ty, s, v.pos, Append(acc, v.val))
            ELSE Fail
      ELSE Fail

\* The members of an object from a key on: key ":" value, then "," or "}"
ReadMembers(ty, s, i, seen) ==
  LET k == ReadString(s, SkipWs(s, i))
  IN  IF ~k.ok THEN Fail
      ELSE
        LET c == SkipWs(s, k.pos)
        IN  IF ~At(s, c, ":") THEN Fail
            ELSE
              LET fty  == FieldType(ty, k.val)
                  v    == ReadValue(fty, s, SkipWs(s, c + 1))
                  name == Unwrap(Lookup(FieldNames, k.val))
              IN  IF ~v.ok THEN Fail
                  ELSE IF fty # "any" /\ name \in DOMAIN seen THEN Fail
                  ELSE
                    LET seen2 == IF fty = "any" THEN seen
                                 ELSE (name :> v.val) @@ seen
                        e     == SkipWs(s, v.pos)
                    IN  IF At(s, e, ",") THEN ReadMembers(ty, s, e + 1, seen2)
                        ELSE IF At(s, e, "}") THEN
                          LET b == Build(ty, seen2)
                          IN  IF b.ok THEN Parsed(b.val, e + 1) ELSE Fail
                        ELSE Fail

\* One JSON value of type ty starting at index i (leading whitespace skipped
\* by the caller).  Type "any" is a value that is read and dropped: a
\* string, true, false, null, an array or an object; numbers are left out.
ReadValue(ty, s, i) ==
  IF ty = "string" THEN ReadString(s, i)
  ELSE IF ty = "bool" THEN ReadBool(s, i)
  ELSE IF ty \in {"tasks", "notes"} \/ (ty = "any" /\ At(s, i, "[")) THEN
    IF ~At(s, i, "[") THEN Fail
    ELSE
      LET j == SkipWs(s, i + 1)
      IN  IF At(s, j, "]") THEN Parsed(<< >>, j + 1)
          ELSE
            LET v == ReadValue(ElementType(ty), s, j)
            IN  IF v.ok THEN ReadElements(ElementType(ty), s, v.pos, << v.val >>)
                ELSE Fail
  ELSE IF ty \in {"state", "task", "note", "config"}
          \/ (ty = "any" /\ At(s, i, "{")) THEN
    IF ~At(s, i, "{") THEN Fail
    ELSE
      LET j == SkipWs(s, i + 1)
      IN  IF At(s, j, "}") THEN
            LET b == Build(ty, << >>)
            IN  IF b.ok THEN Parsed(b.val, j + 1) ELSE Fail
          ELSE ReadMembers(ty, s, j, << >>)
  ELSE IF At(s, i, "\"") THEN
    LET v == ReadString(s, i) IN IF v.ok THEN Parsed(<< >>, v.pos) ELSE Fail
  ELSE IF Holds(s, i, << "t","r","u","e" >>) THEN Parsed(<< >>, i + 4)
  ELSE IF Holds(s, i, << "f","a","l","s","e" >>) THEN Parsed(<< >>, i + 5)
  ELSE IF Holds(s, i, << "n","u","l","l" >>) THEN Parsed(<< >>, i + 4)
  ELSE Fail

\* serde_json::from_str::<T>(content): one value of type ty, then nothing
\* but whitespace
EndOfInput(v, c) ==
  IF v.ok /\ SkipWs(c, v.pos) = Len(c) + 1 THEN Ok(v.val) ELSE Err("Json", << >>)

from_str(ty, content) ==
  Unwrap({ Unwrap({ EndOfInput(v, c) : v \in {ReadValue(ty, c, SkipWs(c, 1))} })
           : c \in {content} })

\* fs::read_to_string: fails on a file that is not valid UTF-8
read_to_string(file) ==
  IF \E i \in 1..Len(file.data) : file.data[i] = "xFF"
  THEN Err("Io", << >>)
  ELSE Ok(file.data)

-----------------------------------------------------------------------------
(* The files under ~/.tasks.  The home directory is taken to exist. *)

Absent == [exists |-> FALSE, data |-> << >>]

File(data) == [exists |-> TRUE, data |-> data]

\* fs::rename(from, to): replaces `to`, removes `from`
rename(fs, from, to) == [fs EXCEPT ![to] = fs[from], ![from] = Absent]

\* The outcomes of writing a file: the directory cannot be created, the
\* file cannot be opened, the write stops part-way, or all is written
IoOutcomes == {"ok", "dir_fail", "open_fail", "short_write"}

\* fn ensure_tasks_dir: create_dir_all is attempted only when the directory
\* is missing, and only then can it fail
ensure_tasks_dir(dir, outcome) ==
  IF ~dir /\ outcome = "dir_fail" THEN Err("Io", << >>) ELSE Ok(TRUE)

\* fs::write as it would be if it opened the file for appending
fs_write_append(file, content, outcome) ==
  IF outcome = "open_fail" THEN [res |-> Err("Io", << >>), file |-> file]
  ELSE [res |-> Ok(TRUE), file |-> File(file.data \o content)]

\* fs::write(path, content): create-and-truncate, then write everything
fs_write(file, content, outcome) ==
  IF outcome = "open_fail" THEN [res |-> Err("Io", << >>), file |-> file]
  ELSE IF outcome = "short_write"
  THEN [res  |-> Err("Io", << >>),
        file |-> File(SubSeq(content, 1, Len(content) \div 2))]
  ELSE [res |-> Ok(TRUE), file |-> File(content)]

\* TaskState::default()
DefaultState == [current |-> << >>, shelf |-> << >>]

\* fn load_tasks: the state it returns and the files it leaves
load_tasks(fs) ==
  LET path == fs["state.json"]
  IN  Unwrap({ IF ~path.exists THEN [val |-> DefaultState, fs |-> fs]
               ELSE IF ~content.ok THEN [val |-> DefaultState, fs |-> fs]
               ELSE IF from_str("state", content.val).ok
               THEN [val |-> from_str("state", content.val).val, fs |-> fs]
               ELSE [val |-> DefaultState,
                     fs  |-> rename(fs, "state.json", "state.json.corrupted")]
               : content \in {read_to_string(path)} })

\* fn load_config: the hotkey string of the configuration it returns
load_config(fs) ==
  LET path == fs["config.json"]
  IN  Unwrap({ IF path.exists /\ content.ok /\ from_str("config", content.val).ok
               THEN from_str("config", content.val).val
               ELSE default_hotkey
               : content \in {read_to_string(path)} })

\* fn save_tasks / fn save_config write `content` to the file `name`:
\* the result, the files and whether the directory exists afterwards
save_file(name, content, fs, dir, outcome) ==
  IF ~ensure_tasks_dir(dir, outcome).ok
  THEN [res |-> ensure_tasks_dir(dir, outcome), fs |-> fs, dir |-> dir]
  ELSE Unwrap({ [res |-> w.res, fs |-> [fs EXCEPT ![name] = w.file], dir |-> TRUE]
                : w \in {fs_write(fs[name], content, outcome)} })

save_tasks(state, fs, dir, outcome) ==
  save_file("state.json", StateToJson(state), fs, dir, outcome)

save_config(cfg, fs, dir, outcome) ==
  save_file("config.json", ConfigToJson(cfg), fs, dir, outcome)

-----------------------------------------------------------------------------
(* The completion log *)

\* Local::now().format("%Y-%m-%d"): one element stands for the formatted date
DayLength == 2

DateOf(now) == << ToString(now \div DayLength) >>

\* The record append_done writes: "- <date>: <text>", then one line
\* "  <glyph> <text>" per note; "x2713" and "x25CB" stand for the two glyphs
DoneRecord(task, now) ==
  << "-", " " >> \o DateOf(now) \o << ":", " " >> \o task.text \o << "\n" >>
  \o Flatten([i \in 1..Len(task.notes) |->
                << " ", " ",
                   IF task.notes[i].completed THEN "x2713" ELSE "x25CB",
                   " " >> \o task.notes[i].text \o << "\n" >>])

\* append_done as it would be with the file opened for writing from the
\* start instead of for appending
append_done_truncating(task, now, d, dir, outcome) ==
  LET made == ensure_tasks_dir(dir, outcome)
      rec  == DoneRecord(task, now)
  IN  IF ~made.ok THEN [res |-> made, done |-> d, dir |-> dir]
      ELSE IF outcome = "open_fail"
      THEN [res |-> Err("Io", << >>), done |-> d, dir |-> TRUE]
      ELSE IF outcome = "short_write"
      THEN [res  |-> Err("Io", << >>),
            done |-> [d EXCEPT !.log = File(SubSeq(rec, 1, Len(rec) \div 2))],
            dir  |-> TRUE]
      ELSE [res  |-> Ok(TRUE),
            done |-> [d EXCEPT !.log = File(rec)],
            dir  |-> TRUE]

\* fn append_done: OpenOptions create + append, then write_all
append_done(task, now, d, dir, outcome) ==
  LET made == ensure_tasks_dir(dir, outcome)
      rec  == DoneRecord(task, now)
      old  == d.log.data
  IN  IF ~made.ok THEN [res |-> made, done |-> d, dir |-> dir]
      ELSE IF outcome = "open_fail"
      THEN [res |-> Err("Io", << >>), done |-> d, dir |-> TRUE]
      ELSE IF outcome = "short_write"
      THEN [res  |-> Err("Io", << >>),
            done |-> [d EXCEPT !.log =
                        File(old \o SubSeq(rec, 1, Len(rec) \div 2))],
            dir  |-> TRUE]
      ELSE [res  |-> Ok(TRUE),
            done |-> [d EXCEPT !.log = File(old \o rec)],
            dir  |-> TRUE]

-----------------------------------------------------------------------------
(* Bounds and inputs *)

MaxTasks == 2

MaxParts == 3

MaxClock == 1

MaxLog == 2

Callers == {1, 2}

NoRet == [op |-> "none"]

Note_a == [text |-> << "a" >>, completed |-> TRUE]

Note_e == [text |-> << >>, completed |-> FALSE]

Task_a == [text |-> << "a" >>, notes |-> << >>]

Task_bn == [text |-> << "\\", "n" >>, notes |-> << Note_a >>]

Task_q == [text |-> << "\"", "\n" >>, notes |-> << Note_a, Note_e >>]

TaskPool == {Task_a, Task_bn, Task_q}

TaskLists == UNION { [1..n -> TaskPool] : n \in 0..MaxTasks }

\* Every Task State with at most MaxTasks pool tasks in each list
RichStates == [current : TaskLists, shelf : TaskLists]

State_milk == [current |-> << Task_a >>, shelf |-> << >>]

State_two == [current |-> << Task_q, Task_a >>, shelf |-> << Task_bn >>]

StateInputs == {DefaultState, State_milk, State_two}

Hotkey_CtrlAltK == << "C","t","r","l","+","A","l","t","+","K" >>

Hotkey_eq == << "=" >>

Hotkey_CmdFoo == << "C","m","d","+","F","o","o" >>

Hotkey_empty == << >>

HotkeyInputs == {Hotkey_CtrlAltK, Hotkey_eq, Hotkey_CmdFoo, Hotkey_empty}

\* Contents a state.json can be found with at startup
Bytes_garbage == << "n", "o", "t", " ", "j", "s", "o", "n" >>

Bytes_notext == << "{", "xFF", "}" >>

Bytes_object == << "{", "}" >>

Bytes_cut == SubSeq(StateToJson(State_two), 1, Len(StateToJson(State_two)) \div 2)

Bytes_old == << "o", "l", "d" >>

StateFiles ==
  {Absent, File(StateToJson(State_two)), File(<< >>), File(Bytes_garbage),
   File(Bytes_notext), File(Bytes_object), File(Bytes_cut)}

ConfigFiles ==
  {Absent, File(ConfigToJson(Hotkey_CtrlAltK)), File(ConfigToJson(Hotkey_CmdFoo)),
   File(Bytes_object), File(Bytes_garbage), File(Bytes_notext)}

BackupFiles == {Absent, File(Bytes_old)}

NoFiles ==
  [n \in {"state.json", "state.json.corrupted",
          "config.json", "config.json.corrupted"} |-> Absent]

NoDone == [log |-> Absent, archives |-> << >>]

\* The tokens hotkey strings under parse are joined from
Tokens ==
  { << "C","t","r","l" >>, << "a","l","t" >>, << "C","M","D" >>, << "S","h","i","f","t" >>, << "K" >>, << "=" >>, << "E","q","u","a","l" >>, << "F","o","o" >>, << "F","1" >>, << >> }

PartLists == UNION { [1..n -> Tokens] : n \in 0..MaxParts }

RECURSIVE Join(_)
Join(parts) ==
  IF parts = << >> THEN << >>
  ELSE IF Len(parts) = 1 THEN parts[1]
  ELSE parts[1] \o << "+" >> \o Join(Tail(parts))

-----------------------------------------------------------------------------
(* The process: run(), quit, and the commands run one at a time *)

memory == << tasks, config, current_shortcut, registered >>

desktop == << target_os, window >>

\* No mutex of a fresh AppState is poisoned
Mutexes == {"tasks", "config", "current_shortcut"}

NotPoisoned == [m \in Mutexes |-> FALSE]

\* The main window before its first toggle: hidden, where the window
\* configuration put it
WindowAtStart == [visible |-> FALSE, position |-> [x |-> 0, y |-> 0]]

disk == << dirExists, files, done >>

callers == << pc, arg, tasksLock >>

Idle == \A c \in Callers : pc[c] \in {"idle", "returned"}

\* Before the process starts: nothing in memory, no caller, no call made
Halted ==
  /\ phase = "off"
  /\ tasks = DefaultState
  /\ config = default_hotkey
  /\ current_shortcut = None
  /\ registered = {}
  /\ clock = 0
  /\ ret = NoRet
  /\ latest = [src |-> "none", arg |-> DefaultState, ok |-> TRUE]
  /\ pc = [c \in Callers |-> "idle"]
  /\ tasksLock = None
  /\ poisoned = NotPoisoned
  /\ window = WindowAtStart

\* Before the process starts, in a build for macOS
Stopped ==
  /\ Halted
  /\ target_os = "macos"

\* No input drawn for a function checked on its own
NoInput ==
  /\ inParts = << >>
  /\ arg = [c \in Callers |-> DefaultState]

\* The shortcut setup registers when the configured hotkey does not parse
FallbackShortcut ==
  [mods |-> Some({"SUPER", "CONTROL", "ALT", "SHIFT"}), code |-> "Equal"]

\* pub fn run: load_tasks, load_config, manage(AppState), then setup stores
\* and registers the shortcut.  When the OS refuses the registration, setup
\* fails and the process ends; what load_tasks did to the files stays.
Run ==
  /\ phase = "off"
  /\ \E osOk \in BOOLEAN, loaded \in {load_tasks(files)} :
       \E cfg \in {load_config(loaded.fs)} :
         \E parsed \in {parse_hotkey(cfg)} :
           /\ files' = loaded.fs
           /\ IF osOk
              THEN /\ phase' = "up"
                   /\ tasks' = loaded.val
                   /\ config' = cfg
                   /\ current_shortcut' =
                        Some(IF parsed.ok THEN parsed.val ELSE FallbackShortcut)
                   /\ registered' =
                        {IF parsed.ok THEN parsed.val ELSE FallbackShortcut}
                   /\ ret' = [op |-> "run", res |-> Ok(TRUE)]
                   /\ latest' = [src |-> "startup", arg |-> loaded.val, ok |-> TRUE]
              ELSE /\ ret' = [op |-> "run", res |-> Err("Os", << >>)]
                   /\ UNCHANGED << phase, memory, latest >>
  /\ UNCHANGED << poisoned, desktop, dirExists, done, clock, inParts, callers >>

\* The tray menu's "quit": app.exit(0).  The process's memory is gone and
\* the OS drops its registrations.
Quit ==
  /\ phase = "up"
  /\ Idle
  /\ phase' = "off"
  /\ tasks' = DefaultState
  /\ config' = default_hotkey
  /\ current_shortcut' = None
  /\ registered' = {}
  /\ ret' = [op |-> "quit"]
  /\ pc' = [c \in Callers |-> "idle"]
  /\ poisoned' = NotPoisoned
  /\ window' = WindowAtStart
  /\ UNCHANGED << target_os, disk, clock, latest, inParts, arg, tasksLock >>

\* Time passes
Tick ==
  /\ clock < MaxClock
  /\ clock' = clock + 1
  /\ UNCHANGED << poisoned, desktop, phase, memory, disk, ret, latest,
                  inParts, callers >>

\* What a command that could not get its guard leaves as its result
Panicked(op) == [op |-> op, res |-> Err("Panic", << >>)]

\* mutex.lock().unwrap(), which panics on a poisoned mutex
lock_unwrap(poison) == IF poison THEN "panic" ELSE "guard"

\* mutex.lock().unwrap_or_else(|e| e.into_inner()): the guard, whether or
\* not an earlier holder panicked
lock_or_into_inner(poison) == "guard"

\* #[tauri::command] fn get_tasks
get_tasks ==
  /\ phase = "up"
  /\ Idle
  /\ ret' = IF lock_or_into_inner(poisoned["tasks"]) = "guard"
            THEN [op |-> "get_tasks", res |-> Ok(tasks)]
            ELSE Panicked("get_tasks")
  /\ UNCHANGED << poisoned, desktop, phase, memory, disk, clock, latest,
                  inParts, callers >>

\* #[tauri::command] fn save_state, run by one caller without interruption
save_state_rollback(new_state, outcome) ==
  /\ phase = "up"
  /\ Idle
  /\ \E w \in {save_tasks(new_state, files, dirExists, outcome)} :
       /\ tasks' = IF w.res.ok THEN new_state ELSE tasks
       /\ files' = w.fs
       /\ dirExists' = w.dir
       /\ ret' = [op |-> "save_state", arg |-> new_state, res |-> w.res]
       /\ latest' = [src |-> "save_state", arg |-> new_state, ok |-> w.res.ok]
  /\ UNCHANGED << poisoned, desktop, phase, config, current_shortcut,
                  registered, done, clock,
                  inParts, callers >>

save_state(new_state, outcome) ==
  /\ phase = "up"
  /\ Idle
  /\ IF lock_or_into_inner(poisoned["tasks"]) = "guard"
     THEN \E w \in {save_tasks(new_state, files, dirExists, outcome)} :
            /\ tasks' = new_state
            /\ files' = w.fs
            /\ dirExists' = w.dir
            /\ ret' = [op |-> "save_state", arg |-> new_state, res |-> w.res]
            /\ latest' = [src |-> "save_state", arg |-> new_state,
                          ok |-> w.res.ok]
     ELSE /\ ret' = Panicked("save_state")
          /\ UNCHANGED << tasks, files, dirExists, latest >>
  /\ UNCHANGED << poisoned, desktop, phase, config, current_shortcut,
                  registered, done, clock,
                  inParts, callers >>

\* complete_task as it would be if it also took the task off the current
\* list
complete_task_removes(task, outcome) ==
  /\ phase = "up"
  /\ Idle
  /\ Len(done.log.data) < MaxLog * Len(DoneRecord(task, clock))
  /\ \E a \in {append_done(task, clock, done, dirExists, outcome)} :
       /\ done' = a.done
       /\ dirExists' = a.dir
       /\ ret' = [op |-> "complete_task", arg |-> task, res |-> a.res]
  /\ tasks' = [tasks EXCEPT
                 !.current = SelectSeq(tasks.current, LAMBDA t : t # task)]
  /\ UNCHANGED << poisoned, desktop, phase, config, current_shortcut,
                  registered, files, clock,
                  latest, inParts, callers >>

\* #[tauri::command] fn complete_task
complete_task(task, outcome) ==
  /\ phase = "up"
  /\ Idle
  /\ Len(done.log.data) < MaxLog * Len(DoneRecord(task, clock))
  /\ \E a \in {append_done(task, clock, done, dirExists, outcome)} :
       /\ done' = a.done
       /\ dirExists' = a.dir
       /\ ret' = [op |-> "complete_task", arg |-> task, res |-> a.res]
  /\ UNCHANGED << poisoned, desktop, phase, memory, files, clock, latest,
                  inParts, callers >>

\* archive_done as it would be if it moved done.md to the archive name
archive_done_rename(outcome) ==
  /\ phase = "up"
  /\ Idle
  /\ IF ~done.log.exists
     THEN /\ ret' = [op |-> "archive_done", res |-> Err("NothingToArchive", << >>)]
          /\ UNCHANGED done
     ELSE IF outcome \in {"open_fail", "short_write"}
     THEN /\ ret' = [op |-> "archive_done", res |-> Err("Io", << >>)]
          /\ UNCHANGED done
     ELSE /\ ret' = [op |-> "archive_done", res |-> Ok(clock)]
          /\ done' = [log      |-> Absent,
                      archives |-> (clock :> done.log.data) @@ done.archives]
  /\ UNCHANGED << poisoned, desktop, phase, memory, dirExists, files, clock,
                  latest, inParts,
                  callers >>

\* #[tauri::command] fn archive_done: copy done.md to done_<timestamp>.md,
\* then write done.md empty.  The archive is named by the second; the copy
\* or the write can fail.
archive_done(outcome) ==
  /\ phase = "up"
  /\ Idle
  /\ IF ~done.log.exists
     THEN /\ ret' = [op |-> "archive_done", res |-> Err("NothingToArchive", << >>)]
          /\ UNCHANGED done
     ELSE IF outcome = "open_fail"
     THEN /\ ret' = [op |-> "archive_done", res |-> Err("Io", << >>)]
          /\ UNCHANGED done
     ELSE IF outcome = "short_write"
     THEN /\ ret' = [op |-> "archive_done", res |-> Err("Io", << >>)]
          /\ done' = [done EXCEPT !.archives = (clock :> done.log.data) @@ @]
     ELSE /\ ret' = [op |-> "archive_done", res |-> Ok(clock)]
          /\ done' = [log      |-> File(<< >>),
                      archives |-> (clock :> done.log.data) @@ done.archives]
  /\ UNCHANGED << poisoned, desktop, phase, memory, dirExists, files, clock,
                  latest, inParts,
                  callers >>

\* #[tauri::command] fn get_hotkey
get_hotkey ==
  /\ phase = "up"
  /\ Idle
  /\ ret' = IF lock_or_into_inner(poisoned["config"]) = "guard"
            THEN [op |-> "get_hotkey", res |-> Ok(config)]
            ELSE Panicked("get_hotkey")
  /\ UNCHANGED << poisoned, desktop, phase, memory, disk, clock, latest,
                  inParts, callers >>

\* global_shortcut().unregister(old): the OS may refuse; the caller ignores it
unregister(reg, old, osOk) == IF osOk THEN reg \ old ELSE reg

\* The steps of set_hotkey after validation as they would be without the
\* unregistration of the stored shortcut
rebind_keep_old(hotkey, new, unregOk, regOk, outcome) ==
  \E reg1 \in {registered} :
    IF ~regOk \/ new \in reg1
    THEN /\ registered' = reg1
         /\ ret' = [op |-> "set_hotkey", arg |-> hotkey, res |-> Err("Os", << >>)]
         /\ UNCHANGED << config, current_shortcut, files, dirExists >>
    ELSE \E w \in {save_config(hotkey, files, dirExists, outcome)} :
         /\ registered' = reg1 \cup {new}
         /\ current_shortcut' = Some(new)
         /\ config' = hotkey
         /\ files' = w.fs
         /\ dirExists' = w.dir
         /\ ret' = [op |-> "set_hotkey", arg |-> hotkey, res |-> w.res]

\* The steps of set_hotkey after validation: unregister the stored
\* shortcut, register the new one, store it, set and save the configuration
rebind(hotkey, new, unregOk, regOk, outcome) ==
  \E reg1 \in {unregister(registered, current_shortcut, unregOk)} :
    IF ~regOk \/ new \in reg1
    THEN /\ registered' = reg1
         /\ ret' = [op |-> "set_hotkey", arg |-> hotkey, res |-> Err("Os", << >>)]
         /\ UNCHANGED << config, current_shortcut, files, dirExists >>
    ELSE IF lock_or_into_inner(poisoned["config"]) # "guard"
    THEN /\ registered' = reg1 \cup {new}
         /\ current_shortcut' = Some(new)
         /\ ret' = Panicked("set_hotkey")
         /\ UNCHANGED << config, files, dirExists >>
    ELSE \E w \in {save_config(hotkey, files, dirExists, outcome)} :
         /\ registered' = reg1 \cup {new}
         /\ current_shortcut' = Some(new)
         /\ config' = hotkey
         /\ files' = w.fs
         /\ dirExists' = w.dir
         /\ ret' = [op |-> "set_hotkey", arg |-> hotkey, res |-> w.res]

\* #[tauri::command] fn set_hotkey, run by one caller without interruption
set_hotkey_unchecked(hotkey, unregOk, regOk, outcome) ==
  /\ phase = "up"
  /\ Idle
  /\ \E parsed \in {parse_hotkey(hotkey)} :
       rebind(hotkey, IF parsed.ok THEN parsed.val ELSE FallbackShortcut,
              unregOk, regOk, outcome)
  /\ UNCHANGED << poisoned, desktop, phase, tasks, done, clock, latest,
                  inParts, callers >>

set_hotkey(hotkey, unregOk, regOk, outcome) ==
  /\ phase = "up"
  /\ Idle
  /\ \E parsed \in {parse_hotkey(hotkey)} :
       IF ~parsed.ok
       THEN /\ ret' = [op |-> "set_hotkey", arg |-> hotkey,
                       res |-> Err(parsed.kind, parsed.token)]
            /\ UNCHANGED << config, current_shortcut, registered, files,
                            dirExists >>
       ELSE IF lock_or_into_inner(poisoned["current_shortcut"]) # "guard"
       THEN /\ ret' = Panicked("set_hotkey")
            /\ UNCHANGED << config, current_shortcut, registered, files,
                            dirExists >>
       ELSE rebind(hotkey, parsed.val, unregOk, regOk, outcome)
  /\ UNCHANGED << poisoned, desktop, phase, tasks, done, clock, latest,
                  inParts, callers >>

-----------------------------------------------------------------------------
(* The program with its commands run one at a time *)

SaveState == \E s \in {State_milk, State_two}, o \in IoOutcomes : save_state(s, o)

CompleteTask == complete_task(Task_q, "ok")

ArchiveDone == archive_done("ok")

SetHotkeyValid == \E h \in {Hotkey_CtrlAltK, Hotkey_CmdFoo} : set_hotkey(h, TRUE, TRUE, "ok")

\* The files the process can find at startup
Init ==
  /\ Stopped
  /\ NoInput
  /\ done = NoDone
  /\ \/ /\ dirExists = FALSE
        /\ files = NoFiles
     \/ /\ dirExists = TRUE
        /\ \E s \in {Absent, File(StateToJson(State_two))} :
             files = [NoFiles EXCEPT !["state.json"] = s]

Next ==
  \/ Run
  \/ Quit
  \/ get_tasks
  \/ SaveState
  \/ CompleteTask
  \/ ArchiveDone
  \/ get_hotkey
  \/ SetHotkeyValid

Spec == Init /\ [][Next]_vars

-----------------------------------------------------------------------------
(* parse_hotkey on its own: every string joined from at most MaxParts tokens *)

ParseInit ==
  /\ Stopped
  /\ inParts \in PartLists
  /\ arg = [c \in Callers |-> DefaultState]
  /\ dirExists = FALSE
  /\ files = NoFiles
  /\ done = NoDone

ParseHotkey ==
  /\ ret = NoRet
  /\ \E hotkey \in {Join(inParts)} :
       ret' = [op |-> "parse_hotkey", arg |-> hotkey, res |-> parse_hotkey(hotkey)]
  /\ UNCHANGED << poisoned, desktop, phase, memory, disk, clock, latest,
                  inParts, callers >>

SpecParse == ParseInit /\ [][ParseHotkey]_vars

-----------------------------------------------------------------------------
(* Saving and restarting, over every Task State of RichStates *)

RoundTripInit ==
  /\ Stopped
  /\ inParts = << >>
  /\ \E s \in RichStates : arg = [c \in Callers |-> s]
  /\ done = NoDone
  /\ \/ /\ dirExists = FALSE
        /\ files = NoFiles
     \/ /\ dirExists = TRUE
        /\ files = [NoFiles EXCEPT !["state.json"] = File(StateToJson(State_two))]

\* save_state with the Task State drawn at the start
SaveRich == save_state(arg[1], "ok")

RoundTripNext ==
  \/ Run
  \/ Quit
  \/ SaveRich

SpecRoundTrip == RoundTripInit /\ [][RoundTripNext]_vars

-----------------------------------------------------------------------------
(* Starting up over the contents state.json and config.json can hold *)

LoadInit ==
  /\ Stopped
  /\ NoInput
  /\ dirExists = TRUE
  /\ done = NoDone
  /\ \E s \in StateFiles, b \in BackupFiles, c \in ConfigFiles :
       files = [NoFiles EXCEPT !["state.json"] = s,
                               !["state.json.corrupted"] = b,
                               !["config.json"] = c]

LoadNext ==
  \/ Run
  \/ Quit
  \/ get_tasks
  \/ get_hotkey

SpecLoad == LoadInit /\ [][LoadNext]_vars

-----------------------------------------------------------------------------
(* The hotkey commands, with the OS and the file system free to fail *)

HotkeyInit ==
  /\ Stopped
  /\ NoInput
  /\ dirExists = TRUE
  /\ done = NoDone
  /\ \E c \in {Absent, File(ConfigToJson(Hotkey_CtrlAltK)),
               File(ConfigToJson(Hotkey_CmdFoo))} :
       files = [NoFiles EXCEPT !["config.json"] = c]

SetHotkey ==
  \E h \in HotkeyInputs, u \in BOOLEAN, r \in BOOLEAN, o \in IoOutcomes :
    set_hotkey(h, u, r, o)

HotkeyNext ==
  \/ Run
  \/ Quit
  \/ get_hotkey
  \/ SetHotkey

SpecHotkey == HotkeyInit /\ [][HotkeyNext]_vars

-----------------------------------------------------------------------------
(* save_state called by two callers at once: the steps of one call *)

\* state.tasks.lock(): the mutex is free
lock_ignored(lock) == TRUE

lock_free(lock) == lock = None

\* The command is invoked with new_state
save_state_call(c, new_state) ==
  /\ phase = "up"
  /\ pc[c] \in {"idle", "returned"}
  /\ pc' = [pc EXCEPT ![c] = "waiting"]
  /\ arg' = [arg EXCEPT ![c] = new_state]
  /\ UNCHANGED << poisoned, desktop, phase, memory, disk, clock, ret, latest,
                  inParts, tasksLock >>

\* let mut tasks = state.tasks.lock()...
save_state_lock(c) ==
  /\ pc[c] = "waiting"
  /\ lock_free(tasksLock)
  /\ tasksLock' = Some(c)
  /\ pc' = [pc EXCEPT ![c] = "locked"]
  /\ latest' = [src |-> "save_state", arg |-> arg[c], ok |-> FALSE]
  /\ UNCHANGED << poisoned, desktop, phase, memory, disk, clock, ret, inParts,
                  arg >>

\* *tasks = new_state.clone()
save_state_assign(c) ==
  /\ pc[c] = "locked"
  /\ tasks' = arg[c]
  /\ pc' = [pc EXCEPT ![c] = "assigned"]
  /\ UNCHANGED << poisoned, desktop, phase, config, current_shortcut,
                  registered, disk, clock,
                  ret, latest, inParts, arg, tasksLock >>

\* save_tasks(&tasks), then the guard is dropped and the result returned
save_state_write(c, outcome) ==
  /\ pc[c] = "assigned"
  /\ \E w \in {save_tasks(tasks, files, dirExists, outcome)} :
       /\ files' = w.fs
       /\ dirExists' = w.dir
       /\ ret' = [op |-> "save_state", arg |-> arg[c], res |-> w.res]
       /\ latest' = [latest EXCEPT !.ok = w.res.ok]
  /\ tasksLock' = None
  /\ pc' = [pc EXCEPT ![c] = "returned"]
  /\ UNCHANGED << poisoned, desktop, phase, memory, done, clock, inParts, arg >>

SaveCall == \E c \in Callers, s \in StateInputs : save_state_call(c, s)

SaveLock == \E c \in Callers : save_state_lock(c)

SaveAssign == \E c \in Callers : save_state_assign(c)

SaveWrite == \E c \in Callers, o \in {"ok", "open_fail"} : save_state_write(c, o)

SaveRaceNext ==
  \/ Run
  \/ SaveCall
  \/ SaveLock
  \/ SaveAssign
  \/ SaveWrite

SpecSaveRace == Init /\ [][SaveRaceNext]_vars

-----------------------------------------------------------------------------
(* set_hotkey called by two callers at once.  A caller's call is split
   where the code takes and drops a lock: the current_shortcut guard covers
   the unregistration (lines 286-291) and, separately, the store (lines
   302-305); the registration between them (lines 294-299) is done under no
   lock; the config guard covers the assignment and save_config (308-312). *)

\* The caller enters set_hotkey and validates its argument
set_hotkey_call(c, hotkey) ==
  /\ phase = "up"
  /\ pc[c] = "idle"
  /\ arg' = [arg EXCEPT ![c] = hotkey]
  /\ \E parsed \in {parse_hotkey(hotkey)} :
       IF parsed.ok
       THEN /\ pc' = [pc EXCEPT ![c] = "unregister"]
            /\ UNCHANGED ret
       ELSE /\ pc' = [pc EXCEPT ![c] = "returned"]
            /\ ret' = [op |-> "set_hotkey", arg |-> hotkey,
                       res |-> Err(parsed.kind, parsed.token)]
  /\ UNCHANGED << poisoned, desktop, phase, memory, disk, clock, latest,
                  inParts, tasksLock >>

\* Lines 286-291: under the current_shortcut lock, unregister the stored
\* shortcut, ignoring the OS's answer
set_hotkey_unregister(c, osOk) ==
  /\ phase = "up"
  /\ pc[c] = "unregister"
  /\ registered' = unregister(registered, current_shortcut, osOk)
  /\ pc' = [pc EXCEPT ![c] = "register"]
  /\ UNCHANGED << poisoned, desktop, phase, tasks, config, current_shortcut,
                  disk, clock, ret,
                  latest, inParts, arg, tasksLock >>

\* Lines 294-299: on_shortcut(new_shortcut, ...)?, holding no lock
set_hotkey_register(c, regOk) ==
  /\ phase = "up"
  /\ pc[c] = "register"
  /\ \E new \in {parse_hotkey(arg[c]).val} :
       IF ~regOk \/ new \in registered
       THEN /\ pc' = [pc EXCEPT ![c] = "returned"]
            /\ ret' = [op |-> "set_hotkey", arg |-> arg[c],
                       res |-> Err("Os", << >>)]
            /\ UNCHANGED registered
       ELSE /\ pc' = [pc EXCEPT ![c] = "store"]
            /\ registered' = registered \cup {new}
            /\ UNCHANGED ret
  /\ UNCHANGED << poisoned, desktop, phase, tasks, config, current_shortcut,
                  disk, clock, latest,
                  inParts, arg, tasksLock >>

\* Lines 302-305: under the current_shortcut lock, *current = Some(new)
set_hotkey_store(c) ==
  /\ phase = "up"
  /\ pc[c] = "store"
  /\ current_shortcut' = Some(parse_hotkey(arg[c]).val)
  /\ pc' = [pc EXCEPT ![c] = "save"]
  /\ UNCHANGED << poisoned, desktop, phase, tasks, config, registered, disk,
                  clock, ret, latest,
                  inParts, arg, tasksLock >>

\* Lines 308-314: under the config lock, config.hotkey = hotkey and
\* save_config(&config)?
set_hotkey_save(c, outcome) ==
  /\ phase = "up"
  /\ pc[c] = "save"
  /\ \E w \in {save_config(arg[c], files, dirExists, outcome)} :
       /\ config' = arg[c]
       /\ files' = w.fs
       /\ dirExists' = w.dir
       /\ ret' = [op |-> "set_hotkey", arg |-> arg[c], res |-> w.res]
  /\ pc' = [pc EXCEPT ![c] = "returned"]
  /\ UNCHANGED << poisoned, desktop, phase, tasks, current_shortcut,
                  registered, done, clock,
                  latest, inParts, arg, tasksLock >>

\* Caller 1 asks for Ctrl+Alt+K and caller 2 for "=", or the other way
\* round; the OS grants what it is asked and the disk takes every write
HotkeyCall ==
  \E c \in Callers, h \in {Hotkey_CtrlAltK, Hotkey_eq} :
    /\ \A d \in Callers \ {c} : IF pc[d] = "idle" THEN TRUE ELSE arg[d] # h
    /\ set_hotkey_call(c, h)

HotkeyUnregister == \E c \in Callers : set_hotkey_unregister(c, TRUE)

HotkeyRegister == \E c \in Callers : set_hotkey_register(c, TRUE)

HotkeyStore == \E c \in Callers : set_hotkey_store(c)

HotkeySave == \E c \in Callers : set_hotkey_save(c, "ok")

HotkeyRaceNext ==
  \/ Run
  \/ HotkeyCall
  \/ HotkeyUnregister
  \/ HotkeyRegister
  \/ HotkeyStore
  \/ HotkeySave

SpecHotkeyRace == HotkeyInit /\ [][HotkeyRaceNext]_vars

-----------------------------------------------------------------------------
(* The completion log and its archives, with time passing *)

\* What the tasks directory holds of the log at startup
DoneInit ==
  /\ Stopped
  /\ NoInput
  /\ files = NoFiles
  /\ \/ dirExists = FALSE /\ done = NoDone
     \/ /\ dirExists = TRUE
        /\ \E l \in {Absent, File(<< >>), File(DoneRecord(Task_bn, 0))} :
             done = [NoDone EXCEPT !.log = l]

CompleteAny ==
  \/ \E t \in {Task_a, Task_q} : complete_task(t, "ok")
  \/ \E o \in {"dir_fail", "open_fail"} : complete_task(Task_a, o)

ArchiveOutcomes == {"ok", "open_fail", "short_write"}

ArchiveAny == \E o \in ArchiveOutcomes : archive_done(o)

DoneNext ==
  \/ Run
  \/ Tick
  \/ CompleteAny
  \/ ArchiveAny

SpecDone == DoneInit /\ [][DoneNext]_vars

-----------------------------------------------------------------------------
(* The window toggle.  Coordinates are integers.  On macOS a display's
   frame and the pointer are in Cocoa screen coordinates: origin at the
   bottom-left corner of the primary display, y growing upwards; the window
   position is in top-left-origin coordinates.  NSScreen::screens lists the
   primary display first; NSScreen::mainScreen is the display with the
   keyboard focus, which need not be the primary one. *)

\* let window_width = 400.0
window_width == 400

Frame(x, y, w, h) == [x |-> x, y |-> y, w |-> w, h |-> h]

Point(x, y) == [x |-> x, y |-> y]

\* The test of lines 334-337: the pointer is within the screen's bounds
contains(frame, mouse_pos) ==
  /\ mouse_pos.x >= frame.x
  /\ mouse_pos.x < frame.x + frame.w
  /\ mouse_pos.y >= frame.y
  /\ mouse_pos.y < frame.y + frame.h

\* for screen in screens.iter() { if ... { ...; break; } }: the screen the
\* loop body runs for, if any
first_containing(screens, mouse_pos) ==
  LET hits == {i \in 1..Len(screens) : contains(screens[i], mouse_pos)}
  IN  IF hits = {} THEN None ELSE Some(Min(hits))

\* Lines 326-355, cfg(target_os = "macos"): where the window is put, old
\* being where it was; set_position is called only inside the loop body and
\* only when mainScreen is Some
macos_position(screens, mouse_pos, main_screen, old) ==
  LET found == first_containing(screens, mouse_pos)
  IN  IF found = None \/ main_screen = None THEN old
      ELSE LET frame       == screens[Unwrap(found)]
               x           == frame.x + frame.w - window_width
               y           == frame.y + frame.h
               main_height == screens[Unwrap(main_screen)].h
           IN  Point(x, main_height - y)

\* Lines 357-368, cfg(not(target_os = "macos")): the primary monitor's
\* top-right corner, whatever the pointer; monitor and window sizes are in
\* top-left-origin coordinates
other_position(primary_monitor, outer_size, old) ==
  IF primary_monitor = None \/ outer_size = None THEN old
  ELSE Point(Unwrap(primary_monitor).x + Unwrap(primary_monitor).w
               - Unwrap(outer_size),
             Unwrap(primary_monitor).y)

\* fn toggle_window: hide a visible window; otherwise position, show, focus
toggle_window(env) ==
  /\ phase = "up"
  /\ IF window.visible
     THEN window' = [window EXCEPT !.visible = FALSE]
     ELSE window' =
            [visible  |-> TRUE,
             position |->
               IF target_os = "macos"
               THEN macos_position(env.screens, env.mouse_pos,
                                   env.main_screen, window.position)
               ELSE other_position(env.primary_monitor, env.outer_size,
                                   window.position)]
  /\ ret' = [op |-> "toggle_window", arg |-> env]
  /\ UNCHANGED << poisoned, target_os, memory, disk, clock, latest, inParts,
                  callers, phase >>

\* Displays: the primary one, one of the same height to its right, a
\* taller one to its right, one that overlaps the primary one
Primary == Frame(0, 0, 1000, 800)

RightSame == Frame(1000, 0, 1000, 800)

RightTall == Frame(1000, 0, 1000, 1200)

Overlap == Frame(500, 0, 1000, 800)

ScreenLists ==
  { << Primary >>, << Primary, RightSame >>, << Primary, RightTall >>,
    << Primary, Overlap >> }

\* Pointer positions inside each display, on their edges and outside all
Pointers == { Point(x, y) : x \in {400, 700, 999, 1000, 1600, 2000},
                            y \in {0, 799, 800, 1199, 1200} }

\* What the OS answers toggle_window's queries with
Environments ==
  IF target_os = "macos"
  THEN UNION { { [screens |-> s, mouse_pos |-> p, main_screen |-> Some(k)] :
                   p \in Pointers, k \in 1..Len(s) } : s \in ScreenLists }
  ELSE { [screens |-> s, mouse_pos |-> p, primary_monitor |-> pm,
          outer_size |-> sz] :
           s \in {<< Primary, RightTall >>}, p \in {Point(400, 0), Point(1600, 0)},
           pm \in {None, Some(Primary)}, sz \in {None, Some(window_width)} }

ToggleWindow == \E env \in Environments : toggle_window(env)

PlaceInit ==
  /\ Halted
  /\ target_os \in {"macos", "other"}
  /\ NoInput
  /\ dirExists = FALSE
  /\ files = NoFiles
  /\ done = NoDone

PlaceNext ==
  \/ Run
  \/ ToggleWindow

SpecPlace == PlaceInit /\ [][PlaceNext]_vars

-----------------------------------------------------------------------------
(* Commands after a holder of one of AppState's mutexes has panicked *)

\* A thread panics while it holds mutex m, before it has written anything:
\* the guard is dropped, the mutex is poisoned, the data is as it was
holder_panics(m) ==
  /\ phase = "up"
  /\ Idle
  /\ ~poisoned[m]
  /\ poisoned' = [poisoned EXCEPT ![m] = TRUE]
  /\ ret' = [op |-> "panic", arg |-> m]
  /\ UNCHANGED << desktop, phase, memory, disk, clock, latest, inParts,
                  callers >>

\* A save_state call panics after *tasks = new_state.clone(), inside
\* save_tasks: the new state is stored and the tasks mutex is poisoned
save_state_panics(new_state) ==
  /\ phase = "up"
  /\ Idle
  /\ lock_or_into_inner(poisoned["tasks"]) = "guard"
  /\ tasks' = new_state
  /\ latest' = [src |-> "save_state", arg |-> new_state, ok |-> FALSE]
  /\ poisoned' = [poisoned EXCEPT !["tasks"] = TRUE]
  /\ ret' = [op |-> "panic", arg |-> "tasks"]
  /\ UNCHANGED << desktop, phase, config, current_shortcut, registered, disk,
                  clock, inParts, callers >>

HolderPanics == \E m \in Mutexes : holder_panics(m)

SaveStatePanics == \E s \in {State_milk, State_two} : save_state_panics(s)

SaveStateEither ==
  \E s \in {State_milk, State_two}, o \in {"ok", "open_fail"} : save_state(s, o)

SetHotkeyEither ==
  \E h \in {Hotkey_CtrlAltK, Hotkey_CmdFoo}, r \in BOOLEAN :
    set_hotkey(h, TRUE, r, "ok")

PoisonInit ==
  /\ Stopped
  /\ NoInput
  /\ dirExists = TRUE
  /\ files = NoFiles
  /\ done = NoDone

PoisonNext ==
  \/ Run
  \/ Quit
  \/ HolderPanics
  \/ SaveStatePanics
  \/ get_tasks
  \/ SaveStateEither
  \/ get_hotkey
  \/ SetHotkeyEither

SpecPoison == PoisonInit /\ [][PoisonNext]_vars

-----------------------------------------------------------------------------
(* The claims *)

\* Whether a file's bytes read as text and parse as a Task State / as a
\* Hotkey Configuration
DecodesToState(file) ==
  read_to_string(file).ok /\ from_str("state", read_to_string(file).val).ok

DecodesToConfig(file) ==
  read_to_string(file).ok /\ from_str("config", read_to_string(file).val).ok

ParseErrors == {"EmptyHotkey", "UnknownModifier", "UnknownKey"}

\* C1: a restart that follows a save_state(s) that returned ok starts with
\* the Task State s: run()'s load_tasks reads back exactly what was saved.
C1_RoundTrip ==
  [][(Run /\ phase' = "up" /\ latest.src = "save_state" /\ latest.ok)
       => tasks' = latest.arg]_vars

\* C1 witness: after a restart the Task State holds a duplicated task with
\* two notes and escaped characters, which only the saved file can have given
C1_Witness ==
  /\ phase = "up"
  /\ ret.op = "run"
  /\ latest.src = "startup"
  /\ tasks = [current |-> << Task_q, Task_q >>, shelf |-> << Task_bn, Task_a >>]

\* C2 (as claimed): whenever run() finds a state.json that is not a valid
\* Task State, it starts with the empty default state and leaves the
\* file's original bytes in state.json.corrupted.
C2_Claimed ==
  [][(Run /\ files["state.json"].exists /\ ~DecodesToState(files["state.json"]))
       => /\ phase' = "up" => tasks' = DefaultState
          /\ files'["state.json.corrupted"] = files["state.json"]]_vars

\* C3: while the process is up, the Task State in memory, and what get_tasks
\* returned, is the argument of the most recent save_state call, or the
\* state loaded at startup when there was none; no other command changes it.
C3_ReadAfterReplace ==
  phase = "up" =>
    /\ tasks = latest.arg
    /\ ret.op = "get_tasks" => ret.res.val = latest.arg

\* C3 witness: get_tasks returns the state of a save_state call made before
\* a complete_task and a set_hotkey call
C3_Witness ==
  /\ phase = "up"
  /\ ret.op = "get_tasks"
  /\ ret.res.val = State_milk
  /\ latest.src = "save_state"
  /\ done.log.exists
  /\ config = Hotkey_CtrlAltK

\* C4: a save_state(s) whose write fails returns an I/O error and leaves s
\* in memory.
C4_NoRollback ==
  (ret.op = "save_state" /\ ~ret.res.ok) =>
    /\ ret.res.kind = "Io"
    /\ tasks = ret.arg

\* C4 witness: save_state(State_milk) has failed, memory holds State_milk and
\* state.json still holds the older State_two
C4_Witness ==
  /\ ret.op = "save_state"
  /\ ~ret.res.ok
  /\ tasks = State_milk
  /\ files["state.json"] = File(StateToJson(State_two))

\* C5: when no save_state call is in progress, the Task State in memory is,
\* as a whole, the argument of the call that took the lock last.
C5_LastWriterWins ==
  (phase = "up" /\ Idle /\ latest.src = "save_state") => tasks = latest.arg

\* C5 witness: two calls with different arguments have both returned, and
\* memory holds the first caller's argument (it took the lock second)
C5_Witness ==
  /\ pc[1] = "returned"
  /\ pc[2] = "returned"
  /\ arg[1] = State_milk
  /\ arg[2] = State_two
  /\ tasks = State_milk

\* C6 (as claimed): run()'s load_config treats config.json as load_tasks
\* treats state.json: absent gives the default hotkey; unparseable gives
\* the default hotkey and the file is renamed to config.json.corrupted.
C6_Claimed ==
  [][Run =>
       /\ (~files["config.json"].exists /\ phase' = "up")
            => config' = default_hotkey
       /\ (files["config.json"].exists /\ ~DecodesToConfig(files["config.json"]))
            => /\ phase' = "up" => config' = default_hotkey
               /\ files'["config.json.corrupted"] = files["config.json"]
               /\ ~files'["config.json"].exists]_vars

\* What a token names, case-insensitively
ModifierNamed(token) == Lookup(ModifierTable, to_lowercase(token))

KeyNamed(token) == Lookup(KeyTable, to_lowercase(token))

\* C7: for a string m1+...+mn+k with every mi a modifier alias and k a key
\* token (any case), parse_hotkey returns the key k names with exactly the
\* set of modifiers the mi name, and with no modifier set when n = 0.
C7_ParseValid ==
  (/\ ret.op = "parse_hotkey"
   /\ Len(inParts) >= 1
   /\ \A i \in 1..(Len(inParts) - 1) : ModifierNamed(inParts[i]) # None
   /\ KeyNamed(inParts[Len(inParts)]) # None)
  => /\ ret.res.ok
     /\ ret.res.val.code = Unwrap(KeyNamed(inParts[Len(inParts)]))
     /\ ret.res.val.mods =
          IF Len(inParts) = 1 THEN None
          ELSE Some({ Unwrap(ModifierNamed(inParts[i])) :
                        i \in 1..(Len(inParts) - 1) })

\* C7 witness: "Ctrl+alt+K" has been parsed to {CONTROL, ALT} and KeyK
C7_Witness ==
  /\ ret.op = "parse_hotkey"
  /\ Len(inParts) = 3
  /\ ret.res.ok
  /\ ret.res.val = [mods |-> Some({"CONTROL", "ALT"}), code |-> "KeyK"]

\* C8 (as claimed): parse_hotkey("") fails with the "Empty hotkey" error.
C8_Claimed ==
  (ret.op = "parse_hotkey" /\ ret.arg = << >>) =>
    (~ret.res.ok /\ ret.res.kind = "EmptyHotkey")

\* C9: when a token before the last is no modifier alias, parse_hotkey fails
\* with "Unknown modifier" naming the first such token; otherwise, when the
\* last token is no key, it fails with "Unknown key" naming that token.
C9_ParseMalformed ==
  (ret.op = "parse_hotkey" /\ Len(inParts) >= 1) =>
    LET n   == Len(inParts)
        bad == {i \in 1..(n - 1) : ModifierNamed(inParts[i]) = None}
    IN  /\ bad # {} =>
             ret.res = Err("UnknownModifier", inParts[Min(bad)])
        /\ (bad = {} /\ KeyNamed(inParts[n]) = None) =>
             ret.res = Err("UnknownKey", inParts[n])

\* C9 witness: "Cmd+Foo" has failed with "Unknown key" naming Foo
C9_Witness ==
  /\ ret.op = "parse_hotkey"
  /\ Len(inParts) = 2
  /\ ModifierNamed(inParts[1]) = Some("SUPER")
  /\ ret.res = Err("UnknownKey", << "F", "o", "o" >>)

\* C10: a set_hotkey call whose argument does not parse returns the parse
\* error and changes nothing: not the OS registrations, the stored
\* shortcut, the configuration in memory, or any file.
C10_InvalidUnchanged ==
  [][(SetHotkey /\ ~parse_hotkey(ret'.arg).ok)
       => /\ ~ret'.res.ok
          /\ ret'.res.kind \in ParseErrors
          /\ UNCHANGED << registered, current_shortcut, config, files,
                          dirExists >>]_vars

\* C10 witness: after a successful set_hotkey("Ctrl+Alt+K"), a set_hotkey
\* call has failed with a parse error and Ctrl+Alt+K is still the binding
C10_Witness ==
  /\ ret.op = "set_hotkey"
  /\ ~ret.res.ok
  /\ ret.res.kind \in ParseErrors
  /\ config = Hotkey_CtrlAltK
  /\ registered = {parse_hotkey(Hotkey_CtrlAltK).val}
  /\ current_shortcut = Some(parse_hotkey(Hotkey_CtrlAltK).val)

\* C11 (as claimed): after a set_hotkey(h) that returned ok, parse(h) is the
\* only combination registered with the OS and is the stored shortcut,
\* get_hotkey returns h, and load_config of a fresh process returns h.
C11_Claimed ==
  [][(SetHotkey /\ ret'.res.ok)
       => /\ registered' = {parse_hotkey(ret'.arg).val}
          /\ current_shortcut' = Some(parse_hotkey(ret'.arg).val)
          /\ config' = ret'.arg
          /\ load_config(files') = ret'.arg]_vars

\* C11 (amended): after a set_hotkey(h) that returned ok, parse(h) is
\* registered and is the stored shortcut, the configuration in memory (what
\* get_hotkey returns) is h, and load_config of a fresh process returns h.
\* The stored combination has left the OS registrations when the OS
\* accepted the unregistration; when the OS refused it, the refusal was
\* ignored and the old combination is still registered next to parse(h).
C11_Rebinds ==
  [][\A h \in HotkeyInputs, u \in BOOLEAN, r \in BOOLEAN, o \in IoOutcomes :
       (set_hotkey(h, u, r, o) /\ ret'.res.ok)
         => /\ registered' =
                 (IF u THEN registered \ current_shortcut ELSE registered)
                   \cup {parse_hotkey(h).val}
            /\ current_shortcut' = Some(parse_hotkey(h).val)
            /\ config' = h
            /\ load_config(files') = h]_vars

\* C11 witness: set_hotkey("Ctrl+Alt+K") has returned ok over the default
\* binding; Ctrl+Alt+K alone is registered and config.json holds it
C11_Witness ==
  /\ ret.op = "set_hotkey"
  /\ ret.arg = Hotkey_CtrlAltK
  /\ ret.res.ok
  /\ registered = {parse_hotkey(Hotkey_CtrlAltK).val}
  /\ files["config.json"] = File(ConfigToJson(Hotkey_CtrlAltK))
  /\ load_config(files) = Hotkey_CtrlAltK

\* C12 (as claimed): when set_hotkey unregistered the bound combination and
\* the OS then refuses to register the new one, the call returns the error,
\* no combination is registered, and the stored shortcut no longer names the
\* old combination.
C12_Claimed ==
  [][\A h \in HotkeyInputs, o \in IoOutcomes :
       (/\ set_hotkey(h, TRUE, FALSE, o)
        /\ parse_hotkey(h).ok
        /\ registered = current_shortcut
        /\ registered # {})
         => /\ ~ret'.res.ok
            /\ registered' = {}
            /\ current_shortcut' \cap registered = {}]_vars

\* C13 (as claimed): when set_hotkey("A") and set_hotkey("B"), called
\* together by two callers with distinct valid A and B while a binding is
\* registered, have both returned, exactly one combination is registered
\* with the OS and it is the stored shortcut.
C13_Claimed ==
  (/\ phase = "up"
   /\ \A c \in Callers : pc[c] = "returned"
   /\ arg[1] # arg[2])
  => /\ Cardinality(registered) = 1
     /\ registered = current_shortcut

\* C14 (as claimed): archive_done fails with "nothing to archive", changing
\* no file, exactly when done.md does not exist; otherwise it returns the
\* name of an archive holding what done.md held and leaves done.md empty.
C14_Claimed ==
  [][(ret'.op = "archive_done" /\ ArchiveAny) =>
       IF ~done.log.exists
       THEN /\ ret'.res = Err("NothingToArchive", << >>)
            /\ UNCHANGED << done, files, dirExists >>
       ELSE /\ ret'.res = Ok(clock)
            /\ clock \in DOMAIN done'.archives
            /\ done'.archives[clock] = done.log.data
            /\ done'.log = File(<< >>)]_vars

\* C14 (amended): archive_done fails with "nothing to archive", changing no
\* file, exactly when done.md does not exist.  Otherwise, when the copy and
\* the write succeed, it returns the name of an archive holding what done.md
\* held and leaves done.md existing and empty; when the copy or the write
\* fails it returns the I/O error and done.md keeps its contents.
C14_Archive ==
  [][\A o \in ArchiveOutcomes :
       (ret'.op = "archive_done" /\ archive_done(o)) =>
         /\ UNCHANGED << files, dirExists >>
         /\ IF ~done.log.exists
            THEN /\ ret'.res = Err("NothingToArchive", << >>)
                 /\ UNCHANGED done
            ELSE IF o = "ok"
            THEN /\ ret'.res = Ok(clock)
                 /\ clock \in DOMAIN done'.archives
                 /\ done'.archives[clock] = done.log.data
                 /\ done'.log = File(<< >>)
            ELSE /\ ret'.res = Err("Io", << >>)
                 /\ done'.log = done.log]_vars

\* C14 witness: archive_done has returned the name of an archive that holds
\* two records, and done.md is empty
C14_Witness ==
  /\ ret.op = "archive_done"
  /\ ret.res.ok
  /\ done.log = File(<< >>)
  /\ ret.res.val \in DOMAIN done.archives
  /\ done.archives[ret.res.val] = DoneRecord(Task_a, 0) \o DoneRecord(Task_q, 0)

\* C15 (as claimed): an archive_done that follows a successful archive_done,
\* with no complete_task in between, fails with "nothing to archive" and
\* produces no archive file.
C15_Claimed ==
  [][(ret.op = "archive_done" /\ ret.res.ok /\ ret'.op = "archive_done"
        /\ archive_done("ok"))
       => /\ ret'.res = Err("NothingToArchive", << >>)
          /\ done'.archives = done.archives]_vars

\* C16 (as claimed): no step changes the contents of an archive file.
C16_Claimed ==
  [][\A k \in DOMAIN done.archives :
       /\ k \in DOMAIN done'.archives
       /\ done'.archives[k] = done.archives[k]]_vars

\* The lines the claim gives a record: the header line with the date and
\* the task's text, then one indented line per note with its glyph
NoteLine(note) ==
  << " ", " ", IF note.completed THEN "x2713" ELSE "x25CB", " " >>
    \o note.text \o << "\n" >>

RECURSIVE NoteLines(_)
NoteLines(notes) ==
  IF notes = << >> THEN << >>
  ELSE NoteLine(Head(notes)) \o NoteLines(Tail(notes))

HeaderLine(task, date) ==
  << "-", " " >> \o date \o << ":", " " >> \o task.text \o << "\n" >>

\* C17: a complete_task(t) that returns ok leaves done.md existing, with
\* what it held before as an unchanged prefix (nothing when it was absent)
\* followed by exactly one record for t: its header line, then its note
\* lines in note order.  No archive is touched.
C17_AppendOnly ==
  [][\A t \in TaskPool, o \in IoOutcomes :
       (ret'.op = "complete_task" /\ complete_task(t, o) /\ ret'.res.ok)
         => /\ done'.log.exists
            /\ done'.log.data =
                 (IF done.log.exists THEN done.log.data ELSE << >>)
                   \o HeaderLine(t, DateOf(clock)) \o NoteLines(t.notes)
            /\ done'.archives = done.archives]_vars

\* C17 witness: done.md holds the record of Task_q (two notes) after the
\* record of Task_a, in the order of the two calls
C17_Witness ==
  /\ ret.op = "complete_task"
  /\ ret.arg = Task_q
  /\ ret.res.ok
  /\ done.log.exists
  /\ done.log.data =
       HeaderLine(Task_a, DateOf(0)) \o HeaderLine(Task_q, DateOf(0))
         \o NoteLine(Note_a) \o NoteLine(Note_e)

\* The top-right corner of a display in window coordinates, as the claims
\* state it: the display's right edge less the window width, and its top
\* edge flipped with the primary display's height
TopRight(region, primary) ==
  Point(region.x + region.w - window_width,
        primary.h - (region.y + region.h))

\* C18 (as claimed): showing the window puts it at the top-right corner of
\* the first display that contains the pointer, the vertical position
\* flipped with the primary display's height (macOS build).
C18_Claimed ==
  [][\A env \in Environments :
       (/\ target_os = "macos"
        /\ ret'.op = "toggle_window"
        /\ toggle_window(env)
        /\ ~window.visible
        /\ first_containing(env.screens, env.mouse_pos) # None)
         => /\ window'.visible
            /\ window'.position =
                 TopRight(env.screens[Unwrap(first_containing(env.screens,
                                                              env.mouse_pos))],
                          env.screens[1])]_vars

\* C19 (as claimed): showing the window when no display contains the
\* pointer puts it at the top-right corner of the primary display (macOS
\* build).
C19_Claimed ==
  [][\A env \in Environments :
       (/\ target_os = "macos"
        /\ ret'.op = "toggle_window"
        /\ toggle_window(env)
        /\ ~window.visible
        /\ first_containing(env.screens, env.mouse_pos) = None)
         => /\ window'.visible
            /\ window'.position = TopRight(env.screens[1], env.screens[1])]_vars

\* The commands the claim names
Commands == {"get_tasks", "save_state", "get_hotkey", "set_hotkey"}

\* C20: whichever mutexes a panicking holder has poisoned, no later
\* get_tasks, save_state, get_hotkey or set_hotkey panics; get_tasks returns
\* the Task State stored last (by startup or by the latest save_state, the
\* panicked one included), get_hotkey returns the stored hotkey, and no
\* lock is left held.
C20_PoisonTolerant ==
  (phase = "up" /\ ret.op \in Commands) =>
    /\ ret.res.ok \/ ret.res.kind # "Panic"
    /\ tasks = latest.arg
    /\ tasksLock = None
    /\ ret.op = "get_tasks" => (ret.res.ok /\ ret.res.val = latest.arg)
    /\ ret.op = "get_hotkey" => (ret.res.ok /\ ret.res.val = config)
    /\ (ret.op = "set_hotkey" /\ ret.res.ok) =>
         (config = ret.arg /\ current_shortcut = Some(parse_hotkey(ret.arg).val))

\* C20 witness: with all three mutexes poisoned, one of them by a save_state
\* that panicked after storing State_two, get_tasks has returned State_two
C20_Witness ==
  /\ \A m \in Mutexes : poisoned[m]
  /\ ret.op = "get_tasks"
  /\ ret.res.ok
  /\ ret.res.val = State_two
  /\ latest = [src |-> "save_state", arg |-> State_two, ok |-> FALSE]

\* C21: whenever the application is up and no set_hotkey call is in
\* progress, the string get_hotkey returns parses, and the combination it
\* parses to is the only one registered with the OS and the one recorded in
\* current_shortcut.
C21_Claimed ==
  (phase = "up" /\ Idle) =>
    \E parsed \in {parse_hotkey(config)} :
      IF parsed.ok
      THEN /\ registered = {parsed.val}
           /\ current_shortcut = Some(parsed.val)
      ELSE FALSE

\* needle occurs in hay as a run of consecutive characters
Occurs(needle, hay) ==
  \E i \in 0..(Len(hay) - Len(needle)) :
    SubSeq(hay, i + 1, i + Len(needle)) = needle

\* The record is in done.md or in at least one archive
Kept(rec, d) ==
  \/ d.log.exists /\ Occurs(rec, d.log.data)
  \/ \E k \in DOMAIN d.archives : Occurs(rec, d.archives[k])

\* C22: no completion record is lost: a record that complete_task wrote and
\* that is in done.md or in an archive is, after any further complete_task
\* or archive_done, still in done.md or in at least one archive.
C22_Claimed ==
  [][\A t \in TaskPool, n \in 0..MaxClock :
       Kept(DoneRecord(t, n), done) => Kept(DoneRecord(t, n), done')]_vars

\* C23: when no save_state call is in progress and the call that released
\* the tasks lock last returned ok, state.json exists and decodes to exactly
\* the Task State in memory, the one get_tasks returns.
C23_DiskFollowsMemory ==
  (phase = "up" /\ Idle /\ latest.src = "save_state" /\ latest.ok) =>
    /\ DecodesToState(files["state.json"])
    /\ from_str("state", read_to_string(files["state.json"]).val).val = tasks
    /\ tasksLock = None

\* C23 witness: two callers' calls with different arguments have both
\* returned, caller 1 held the lock last and its write succeeded, and
\* memory and state.json both hold its State_two
C23_Witness ==
  /\ pc[1] = "returned"
  /\ pc[2] = "returned"
  /\ arg[1] = State_two
  /\ arg[2] = State_milk
  /\ latest = [src |-> "save_state", arg |-> State_two, ok |-> TRUE]
  /\ tasks = State_two
  /\ files["state.json"] = File(StateToJson(State_two))

====
